---- MODULE Spec2Model ----
(***************************************************************************)
(* Auto-tracking pipeline of jsTrack (src/ts/opencv-tracking.ts).          *)
(*                                                                         *)
(* Lengths are integers in quarter pixels ("Q"): the region the user draws *)
(* has half-pixel coordinates, and the code halves widths.  Confidence is  *)
(* an integer in tenths (0.5 is 5, 1 is 10).  Video time is an integer   *)
(* number of half frame durations.                                         *)
(***************************************************************************)
EXTENDS Integers, Sequences, FiniteSets, TLC

(* ------------------------------ bounds -------------------------------- *)
\* last frame number a configuration may name
MaxFrame == 2
\* native resolution of the video, in pixels
VideoW == 3
VideoH == 2

(* ----------------------------- constants ------------------------------ *)
\* confidence of a tracked optical-flow result: 1
ConfTracked == 10
\* confidence of a lost result: 0
ConfLost == 0

\* the handler/generator instances the model has room for
Slots == {1, 2}

NoBuf == <<"none", 0>>
NullROI == [x |-> 0, y |-> 0, width |-> 0, height |-> 0, null |-> TRUE]

\* number of frames of the timeline (master.timeline.frameCount)
FrameCount == 3
\* tracking runs started in one behaviour
MaxRuns == 1

\* duration of a frame, in the unit of video time
FrameTime == 2
\* timeline.getFrameStart(frameNumber)
GetFrameStart(frameNumber) == FrameTime * frameNumber
\* the frame that is shown at a time
FrameAt(time) == time \div FrameTime
\* timeline.seek(time)
TimelineSeek(u, time) == [u EXCEPT !.videoTime = time, !.currentFrame = FrameAt(time)]

VARIABLES
    gen,       \* gen[h]: the async generator trackObject(config, signal) of slot h
    ses,       \* ses[h]: the locals of one call of the modal's submit handler
    ui,        \* roiRect, currentROI, the stage listeners, the modal
    points,    \* track.points: frame number -> Point
    undo,      \* the undo system: the registered actions and how many are applied
    runs,      \* tracking runs started so far
    loader,    \* the module opencv-loader: cvReady, its promises, the scripts
    webcam,    \* a WebcamRecorder: its fields and the MediaRecorders it made
    seek       \* a video element and the calls of seekToFrame on it

trackerVars == <<gen>>
sessionVars == <<ses, ui, points, undo, runs, loader, webcam, seek>>
vars == <<gen, ses, ui, points, undo, runs, loader, webcam, seek>>

(* ------------------------- pure helper functions ---------------------- *)
Min(a, b) == IF a < b THEN a ELSE b
Max(a, b) == IF a > b THEN a ELSE b

\* Math.round of a length given in quarter pixels; the result is in pixels
Round(q) == (q + 2) \div 4

clamp(value, min, max) == Max(min, Min(max, value))

\* new cv.Rect(...) of templateMatchTrack, then the two Math.min lines
RoiRect_NoMin(roi, videoWidth, videoHeight) ==
    [x |-> clamp(Round(roi.x), 0, videoWidth - 1),
     y |-> clamp(Round(roi.y), 0, videoHeight - 1),
     width |-> clamp(Round(roi.width), 1, videoWidth),
     height |-> clamp(Round(roi.height), 1, videoHeight)]
RoiRect(roi, videoWidth, videoHeight) ==
    LET x == clamp(Round(roi.x), 0, videoWidth - 1)
        y == clamp(Round(roi.y), 0, videoHeight - 1)
        w == clamp(Round(roi.width), 1, videoWidth)
        h == clamp(Round(roi.height), 1, videoHeight)
    IN  [x |-> x, y |-> y,
         width |-> Min(w, videoWidth - x),
         height |-> Min(h, videoHeight - y)]

\* the search window of one frame: searchX, searchY, searchW, searchH
SearchWindow(g) ==
    LET m  == g.cfg.searchMargin
        sx == clamp(Round(g.matchCenterX - 2 * g.templateW - 4 * m), 0, g.cfg.videoWidth - 1)
        sy == clamp(Round(g.matchCenterY - 2 * g.templateH - 4 * m), 0, g.cfg.videoHeight - 1)
        sw == Round(4 * g.templateW + 8 * m)
        sh == Round(4 * g.templateH + 8 * m)
    IN  [x |-> sx, y |-> sy,
         width |-> Min(sw, g.cfg.videoWidth - sx),
         height |-> Min(sh, g.cfg.videoHeight - sy)]

\* "template can fit in search region" is false
CannotFit(g) ==
    LET s == SearchWindow(g)
    IN  s.width < g.templateW \/ s.height < g.templateH

(* ------------------- inputs of the external vision library ------------ *)
\* cv.minMaxLoc(result).maxVal of TM_CCOEFF_NORMED, in tenths
TemplateConfs == {0, 5}
\* nextPts.data32F[0..1] written by cv.calcOpticalFlowPyrLK, in Q
FlowPoints == {<<6, 4>>}

(* ----------------------------- native buffers ------------------------- *)
\* a cv.Mat is named by the variable that first holds it and the frame it
\* was allocated for
Buf(kind, f) == <<kind, f>>

\* Mat.delete() on each buffer of bs in turn.  Deleting a Mat that was
\* already deleted either does nothing or raises a binding error, which
\* skips the remaining statements.
RECURSIVE DeleteAll(_, _)
DeleteAll(g, bs) ==
    IF bs = <<>> THEN {g}
    ELSE LET b == Head(bs)
         IN  IF b \in g.live
             THEN DeleteAll([g EXCEPT !.live = @ \ {b}], Tail(bs))
             ELSE LET g2 == [g EXCEPT !.doubleDeletes = @ + 1]
                  IN  DeleteAll(g2, Tail(bs)) \cup {[g2 EXCEPT !.error = "binding"]}

Alloc(g, bs) == [g EXCEPT !.live = @ \cup bs]

\* a read of a buffer by a vision operation
Use(g, bs) == [g EXCEPT !.useAfterFree = @ \/ ~(bs \subseteq g.live)]

Progress(frame, total) == [type |-> "progress", frame |-> frame, total |-> total]
Result(frameNumber, x, y, confidence) ==
    [type |-> "result", frameNumber |-> frameNumber, x |-> x, y |-> y,
     confidence |-> confidence]

Yield(g, item, pc) == [g EXCEPT !.out = Append(@, item), !.pc = pc]

\* trackObject: the tracker function the configuration is delegated to
TrackObject_Swapped(cfg) ==
    IF cfg.algorithm = "optical-flow" THEN "templateMatchTrack" ELSE "opticalFlowTrack"
TrackObject(cfg) ==
    IF cfg.algorithm = "optical-flow" THEN "opticalFlowTrack" ELSE "templateMatchTrack"

IsTemplate(g) == TrackObject(g.cfg) = "templateMatchTrack"

(* ------------------------- the two trackers --------------------------- *)
\* the buffers the finally block of the running tracker deletes
FinallyBuffers_ForgetPts(g) ==
    IF IsTemplate(g) THEN <<Buf("template", g.cfg.startFrame)>>
    ELSE <<g.prevGray>>
FinallyBuffers(g) ==
    IF IsTemplate(g) THEN <<Buf("template", g.cfg.startFrame)>>
    ELSE <<g.prevGray, g.prevPts>>

\* leaving the try block: the finally block, then the generator is
\* finished, by completion or by the error that is propagating
Finish(g) ==
    {[x EXCEPT !.pc = IF x.error = "none" THEN "done" ELSE "threw"] :
        x \in DeleteAll(g, FinallyBuffers(g))}

\* the loop condition and the loop top, with frameNum already set
LoopTop_NoAbortCheck(g) ==
    IF g.frameNum > g.cfg.endFrame THEN Finish(g)
    ELSE {Yield(g, Progress(g.frameNum - g.cfg.startFrame,
                            g.cfg.endFrame - g.cfg.startFrame), "atProgress")}
LoopTop_AbsoluteFrame(g) ==
    IF g.frameNum > g.cfg.endFrame THEN Finish(g)
    ELSE IF g.aborted THEN Finish(g)
    ELSE {Yield(g, Progress(g.frameNum, g.cfg.endFrame - g.cfg.startFrame), "atProgress")}
LoopTop(g) ==
    IF g.frameNum > g.cfg.endFrame THEN Finish(g)
    ELSE IF g.aborted THEN Finish(g)
    ELSE {Yield(g, Progress(g.frameNum - g.cfg.startFrame,
                            g.cfg.endFrame - g.cfg.startFrame), "atProgress")}

\* templateMatchTrack from the resolved first seek to the first suspension
TemplateInit(g) ==
    LET start == g.cfg.startFrame
        g1 == Alloc([g EXCEPT !.ran = "templateMatchTrack"], {Buf("startGray", start)})
    IN  IF g.cfg.roi.null
        THEN {[g1 EXCEPT !.pc = "threw", !.error = "type"]}
        ELSE LET r  == RoiRect(g.cfg.roi, g.cfg.videoWidth, g.cfg.videoHeight)
                 g2 == Alloc(Use(g1, {Buf("startGray", start)}), {Buf("template", start)})
             IN  UNION {LoopTop([g3 EXCEPT !.matchCenterX = 4 * r.x + 2 * r.width,
                                           !.matchCenterY = 4 * r.y + 2 * r.height,
                                           !.templateW = r.width,
                                           !.templateH = r.height,
                                           !.frameNum = start + 1]) :
                        g3 \in DeleteAll(g2, <<Buf("startGray", start)>>)}

\* opticalFlowTrack from the resolved first seek to the first suspension
FlowInit(g) ==
    LET start == g.cfg.startFrame
        g1 == Alloc([g EXCEPT !.ran = "opticalFlowTrack"], {Buf("gray", start)})
    IN  IF g.cfg.roi.null
        THEN {[g1 EXCEPT !.pc = "threw", !.error = "type"]}
        ELSE UNION {LoopTop([Alloc(g2, {Buf("pts", start)}) EXCEPT
                                !.prevGray = Buf("gray", start),
                                !.prevPts = Buf("pts", start),
                                !.frameNum = start + 1]) :
                    g2 \in DeleteAll(Alloc(g1, {Buf("dummy", start)}),
                                     <<Buf("dummy", start)>>)}

\* an error raised inside the try block goes to the finally block
Continue(gs, Body(_)) ==
    UNION {IF x.error = "none" THEN Body(x) ELSE Finish(x) : x \in gs}

\* the branch "template can't fit": delete the frame, yield a final
\* zero-confidence result at the last match centre, return
TemplateLost_NoReturn(g) ==
    Continue(DeleteAll(g, <<Buf("gray", g.frameNum)>>),
        LAMBDA x : {Yield(x, Result(g.frameNum, x.matchCenterX, x.matchCenterY, ConfLost),
                          "atResult")})
TemplateLost(g) ==
    Continue(DeleteAll(g, <<Buf("gray", g.frameNum)>>),
        LAMBDA x : {Yield(x, Result(g.frameNum, x.matchCenterX, x.matchCenterY, ConfLost),
                          "atFinal")})

\* one iteration of templateMatchTrack from the resolved seek to its yield
TemplateFrame(g) ==
    LET f  == g.frameNum
        s  == SearchWindow(g)
        g1 == Alloc(g, {Buf("gray", f)})
    IN  IF CannotFit(g)
        THEN TemplateLost(g1)
        ELSE LET g2 == Alloc(Use(g1, {Buf("gray", f)}), {Buf("searchRegion", f)})
                 g3 == Alloc(Use(g2, {Buf("searchRegion", f), Buf("template", g.cfg.startFrame)}),
                             {Buf("result", f)})
                 g4 == Use(g3, {Buf("result", f)})
             IN  UNION {
                   LET cx == 4 * (s.x + mx) + 2 * g.templateW
                       cy == 4 * (s.y + my) + 2 * g.templateH
                   IN  Continue(
                         DeleteAll([g4 EXCEPT !.matchCenterX = cx, !.matchCenterY = cy],
                                   <<Buf("result", f), Buf("searchRegion", f), Buf("gray", f)>>),
                         LAMBDA x : {Yield(x, Result(f, cx, cy, conf), "atResult")})
                   : mx \in 0 .. (s.width - g.templateW),
                     my \in 0 .. (s.height - g.templateH),
                     conf \in TemplateConfs}

\* one iteration of opticalFlowTrack from the resolved seek to its yield
FlowFrame_NoCarry(g) ==
    LET f  == g.frameNum
        g1 == Alloc(g, {Buf("gray", f), Buf("pts", f), Buf("status", f), Buf("err", f)})
        g2 == Use(g1, {g.prevGray, Buf("gray", f), g.prevPts, Buf("pts", f),
                       Buf("status", f), Buf("err", f)})
        g3 == DeleteAll(g2, <<g.prevGray, g.prevPts, Buf("status", f), Buf("err", f)>>)
    IN  UNION {
          IF tracked
          THEN Continue(g3,
                 LAMBDA x : {Yield(x, Result(f, p[1], p[2], ConfTracked), "atResult")})
          ELSE Continue(g3,
                 LAMBDA x : Continue(DeleteAll(x, <<Buf("gray", f), Buf("pts", f)>>),
                   LAMBDA y : {Yield([y EXCEPT !.lostAt = f],
                                     Result(f, p[1], p[2], ConfLost), "atFinal")}))
          : tracked \in BOOLEAN, p \in FlowPoints}
FlowFrame(g) ==
    LET f  == g.frameNum
        g1 == Alloc(g, {Buf("gray", f), Buf("pts", f), Buf("status", f), Buf("err", f)})
        g2 == Use(g1, {g.prevGray, Buf("gray", f), g.prevPts, Buf("pts", f),
                       Buf("status", f), Buf("err", f)})
        g3 == DeleteAll(g2, <<g.prevGray, g.prevPts, Buf("status", f), Buf("err", f)>>)
    IN  UNION {
          IF tracked
          THEN Continue(g3,
                 LAMBDA x : {Yield([x EXCEPT !.prevGray = Buf("gray", f),
                                             !.prevPts = Buf("pts", f)],
                                   Result(f, p[1], p[2], ConfTracked), "atResult")})
          ELSE Continue(g3,
                 LAMBDA x : Continue(DeleteAll(x, <<Buf("gray", f), Buf("pts", f)>>),
                   LAMBDA y : {Yield([y EXCEPT !.lostAt = f],
                                     Result(f, p[1], p[2], ConfLost), "atFinal")}))
          : tracked \in BOOLEAN, p \in FlowPoints}

\* yield* of trackObject: the body of the delegate runs in its place
InitBlock(g) == IF IsTemplate(g) THEN TemplateInit(g) ELSE FlowInit(g)
FrameBlock(g) == IF IsTemplate(g) THEN TemplateFrame(g) ELSE FlowFrame(g)

(* ---------------------- the async generator protocol ------------------ *)
\* seekToFrame(video, time) as the tracker sees it: resolved at once when
\* the video is already there, else currentTime is set and the seek pends
StartSeek(g, time, pending, Resolved(_)) ==
    IF g.videoTime = time THEN Resolved(g)
    ELSE {[g EXCEPT !.videoTime = time, !.pc = pending]}

\* next(): run the generator from where it is suspended to its next
\* suspension (a yield, an await that does not resolve at once, or its end)
GenNext(g) ==
    CASE g.pc = "fresh"      ->
              StartSeek(g, GetFrameStart(g.cfg.startFrame), "seekStart", InitBlock)
      [] g.pc = "atProgress" ->
              StartSeek(g, GetFrameStart(g.frameNum), "seekFrame", FrameBlock)
      [] g.pc = "atResult"   -> {[g EXCEPT !.pc = "sleep"]}
      [] g.pc = "atFinal"    -> Finish(g)

\* return(): a generator that never ran just ends; one suspended at a
\* yield inside the try block runs its finally block
GenReturn(g) ==
    IF g.pc = "fresh" THEN {[g EXCEPT !.pc = "done"]} ELSE Finish(g)

\* the seeked event of a pending seek
GenSeeked_StopsIfAborted(g) ==
    IF g.pc = "seekStart" THEN InitBlock(g)
    ELSE IF g.aborted THEN Finish(g) ELSE FrameBlock(g)
GenSeeked(g) ==
    IF g.pc = "seekStart" THEN InitBlock(g) ELSE FrameBlock(g)

\* the 5 second timer of a pending seek: the first seek is outside the try
GenSeekTimeout(g) ==
    IF g.pc = "seekStart" THEN {[g EXCEPT !.pc = "threw", !.error = "seek"]}
    ELSE Finish([g EXCEPT !.error = "seek"])

\* setTimeout(resolve, 0) between frames, then frameNum++ and the loop top
GenTimer_NoIncrement(g) == LoopTop(g)
GenTimer(g) == LoopTop([g EXCEPT !.frameNum = @ + 1])

AtYield(g) == g.pc \in {"fresh", "atProgress", "atResult", "atFinal"}
AtSeek(g) == g.pc \in {"seekStart", "seekFrame"}
Finished(g) == g.pc \in {"done", "threw"}

NoAbort == [pc |-> "none", frame |-> 0, nOut |-> 0]

\* abortController.abort(); abortAt remembers where the tracker was
GenAbort(g) ==
    [g EXCEPT !.aborted = TRUE,
              !.abortAt = [pc |-> g.pc, frame |-> g.frameNum, nOut |-> Len(g.out)]]

NoConfig ==
    [algorithm |-> "template", startFrame |-> 0, endFrame |-> 0, roi |-> NullROI,
     searchMargin |-> 0, videoWidth |-> 0, videoHeight |-> 0, video |-> "none"]

\* trackObject(config, signal) just called: nothing has run yet
NewGen(cfg, videoTime) ==
    [pc |-> "fresh", cfg |-> cfg, aborted |-> FALSE, videoTime |-> videoTime,
     frameNum |-> 0, matchCenterX |-> 0, matchCenterY |-> 0,
     templateW |-> 0, templateH |-> 0, prevGray |-> NoBuf, prevPts |-> NoBuf,
     live |-> {}, doubleDeletes |-> 0, useAfterFree |-> FALSE, out |-> <<>>,
     error |-> "none", lostAt |-> 0, abortAt |-> NoAbort, ran |-> "none"]

NoGen == [NewGen(NoConfig, 0) EXCEPT !.pc = "none"]

(* ------------------------- tracking configurations ------------------- *)
ROI(x, y, w, h) == [x |-> x, y |-> y, width |-> w, height |-> h, null |-> FALSE]

\* regions in Q: left of the frame, at a half pixel, at the right edge;
\* narrower than a pixel, a pixel and a half, wider than the frame
RoiChoices ==
    {ROI(x, y, w, h) : x \in {-4, 2, 4 * (VideoW - 1)}, w \in {2, 6, 4 * (VideoW + 1)},
                       y \in {0, 6}, h \in {4, 4 * VideoH}}
Margins == {-1, 0, 1}
FrameRanges == {<<s, e>> \in (0 .. MaxFrame) \X (0 .. MaxFrame) : s < e}

TemplateConfigs ==
    {[algorithm |-> "template", startFrame |-> fr[1], endFrame |-> fr[2], roi |-> r,
      searchMargin |-> m, videoWidth |-> VideoW, videoHeight |-> VideoH,
      video |-> "detached"] :
        fr \in FrameRanges, r \in RoiChoices, m \in Margins}
FlowConfigs ==
    {[algorithm |-> "optical-flow", startFrame |-> fr[1], endFrame |-> fr[2],
      roi |-> ROI(2, 0, 6, 4), searchMargin |-> 0,
      videoWidth |-> VideoW, videoHeight |-> VideoH, video |-> "detached"] :
        fr \in FrameRanges}


(* ======================= the loader (opencv-loader) ================== *)
\* calls of loadOpenCV and load attempts that are followed
MaxCalls == 4
MaxLoads == 2
Loads == 1 .. MaxLoads

\* the module just evaluated: cvReady is null (0), nothing was called;
\* cvDefined is "typeof cv !== 'undefined' && cv.Mat"
InitialLoader(cvDefined) ==
    [cvReady |-> 0,
     promise |-> [k \in Loads |-> "none"],
     script |-> [k \in Loads |-> "none"],
     module |-> 0,
     cvDefined |-> cvDefined,
     failures |-> 0,
     calls |-> <<>>]

\* the promise a call returns, with the number of failed loads before it
\* and what became of the caller that awaits it
Returned(l, k) ==
    [l EXCEPT !.calls = Append(@, [promise |-> k, failures |-> l.failures,
                                   caller |-> "awaiting"])]

\* promises created so far
Created(l) == Cardinality({k \in Loads : l.promise[k] # "none"})

\* the executor of new Promise: resolved at once when cv is there, else a
\* script element is appended and window.Module takes the resolver
Executor(l, k) ==
    IF l.cvDefined
    THEN [l EXCEPT !.cvReady = k, !.promise[k] = "resolved"]
    ELSE [l EXCEPT !.cvReady = k, !.promise[k] = "pending",
                   !.script[k] = "loading", !.module = k]

\* loadOpenCV()
loadOpenCV_NoCache(l) ==
    LET k == Created(l) + 1
    IN  Returned(Executor(l, k), k)
loadOpenCV(l) ==
    IF l.cvReady # 0 THEN Returned(l, l.cvReady)
    ELSE LET k == Created(l) + 1
         IN  Returned(Executor(l, k), k)

\* resolve() and reject() settle a promise once
Settle(l, k, how) ==
    IF l.promise[k] = "pending" THEN [l EXCEPT !.promise[k] = how] ELSE l

\* script.onerror of the script of load k
ScriptOnError(l, k) ==
    Settle([l EXCEPT !.cvReady = 0, !.script[k] = "failed", !.failures = @ + 1],
           k, "rejected")

\* the script of load k ran and its runtime calls
\* window.Module.onRuntimeInitialized
OnRuntimeInitialized(l, k) ==
    Settle([l EXCEPT !.script[k] = "ready", !.cvDefined = TRUE], l.module, "resolved")

\* "await loadOpenCV()" of call i goes on, or throws into the catch clause
Awaited(l, i) ==
    [l EXCEPT !.calls[i].caller =
        IF l.promise[l.calls[i].promise] = "resolved" THEN "continued" ELSE "caught"]

(* ============================ seekToFrame ============================ *)
\* calls of seekToFrame on one video element that are followed
MaxSeeks == 3
SeekCalls == 1 .. MaxSeeks

\* a video element at time 0 and no call yet; seeking: the element has a
\* seek under way; listeners, timers: the calls whose onSeeked is
\* registered and whose timer is pending; settles: how often resolve or
\* reject was called; by: what settled the promise
InitialSeek ==
    [currentTime |-> 0, seeking |-> FALSE, listeners |-> {}, timers |-> {},
     promise |-> [c \in SeekCalls |-> "none"],
     settles |-> [c \in SeekCalls |-> 0],
     by |-> [c \in SeekCalls |-> "none"],
     calls |-> 0]

\* resolve() or reject() of the promise of call c
SettleSeek(s, c, how, by) ==
    [s EXCEPT !.settles[c] = @ + 1,
              !.promise[c] = IF @ = "pending" THEN how ELSE @,
              !.by[c] = IF s.promise[c] = "pending" THEN by ELSE @]

\* seekToFrame(video, time)
seekToFrame(s, time) ==
    LET c == s.calls + 1
        s1 == [s EXCEPT !.calls = c, !.promise[c] = "pending"]
    IN  IF s.currentTime = time
        THEN SettleSeek(s1, c, "resolved", "atOnce")
        ELSE [s1 EXCEPT !.timers = @ \cup {c}, !.listeners = @ \cup {c},
                        !.currentTime = time, !.seeking = TRUE]

\* onSeeked of call c
onSeeked_KeepsTimer(s, c) ==
    SettleSeek([s EXCEPT !.listeners = @ \ {c}], c, "resolved", "seeked")
onSeeked(s, c) ==
    SettleSeek([s EXCEPT !.timers = @ \ {c}, !.listeners = @ \ {c}], c, "resolved", "seeked")

\* the callback of the 5000 ms timer of call c
onTimeout(s, c) ==
    SettleSeek([s EXCEPT !.timers = @ \ {c}, !.listeners = @ \ {c}], c, "rejected", "timer")

\* the video dispatches 'seeked' to the listeners registered on it
RECURSIVE DispatchSeeked(_, _)
DispatchSeeked(s, cs) ==
    IF cs = {} THEN s
    ELSE LET c == CHOOSE x \in cs : \A y \in cs : x <= y
         IN  DispatchSeeked(onSeeked(s, c), cs \ {c})

(* ========================== WebcamRecorder =========================== *)
\* MediaRecorders made and data chunks of a recorder that are followed
MaxRecorders == 2
MaxChunks == 2
Recorders == 1 .. MaxRecorders

\* event.data of the n-th non-empty dataavailable event of recorder k
Chunk(k, n) == [rec |-> k, n |-> n]

NoBlob == [made |-> FALSE, chunks |-> <<>>, of |-> 0, latest |-> 0, n |-> 0]

\* new WebcamRecorder(); state[k] is the MediaRecorder k: "none" before
\* it is made, "recording", "stopping" once stop() was called or its
\* tracks ended (the last dataavailable is to come), "stopEvent" (the
\* stop event is to come), "stopped"
InitialWebcam ==
    [stream |-> FALSE, mediaRecorder |-> 0, recordedChunks |-> <<>>,
     state |-> [k \in Recorders |-> "none"],
     onstop |-> [k \in Recorders |-> FALSE],
     emitted |-> [k \in Recorders |-> 0],
     created |-> 0, cleaned |-> FALSE, blob |-> NoBlob, stopPromise |-> "none"]

\* MediaRecorder.stop() of recorder k
RecorderStop(r, k) == [r EXCEPT !.state[k] = "stopping"]

\* stopPreview(): the tracks are stopped, which ends every recorder that
\* records them
stopPreview(r) ==
    IF r.stream
    THEN [r EXCEPT !.stream = FALSE,
                   !.state = [k \in Recorders |->
                                IF r.state[k] = "recording" THEN "stopping" ELSE r.state[k]]]
    ELSE r

\* startPreview(previewEl, deviceId)
startPreview(r) == [stopPreview(r) EXCEPT !.stream = TRUE]

\* startRecording() with a stream
startRecording(r) ==
    LET k == r.created + 1
    IN  [r EXCEPT !.recordedChunks = <<>>, !.mediaRecorder = k, !.created = k,
                  !.state[k] = "recording", !.cleaned = FALSE]

\* the ondataavailable handler of recorder k; the event after stop() is
\* the last one of the recorder
ondataavailable(r, k, nonEmpty) ==
    LET r1 == IF nonEmpty
              THEN [r EXCEPT !.emitted[k] = @ + 1,
                             !.recordedChunks = Append(@, Chunk(k, r.emitted[k] + 1))]
              ELSE r
    IN  IF r.state[k] = "stopping" THEN [r1 EXCEPT !.state[k] = "stopEvent"] ELSE r1

\* the stop event of recorder k, with the onstop handler of stopRecording
\* when it was set on k
onstop(r, k) ==
    IF r.onstop[k]
    THEN [r EXCEPT !.state[k] = "stopped",
                   !.blob = [made |-> TRUE, chunks |-> r.recordedChunks, of |-> k,
                             latest |-> r.created, n |-> r.emitted[k]],
                   !.recordedChunks = <<>>,
                   !.stopPromise = IF @ = "pending" THEN "resolved" ELSE @]
    ELSE [r EXCEPT !.state[k] = "stopped"]

\* stopRecording(): stop() on a recorder that is not recording throws
\* inside the executor, which rejects the promise
stopRecording(r) ==
    LET k == r.mediaRecorder
    IN  IF k = 0 THEN [r EXCEPT !.stopPromise = "rejected"]
        ELSE IF r.state[k] = "recording"
             THEN [RecorderStop(r, k) EXCEPT !.onstop[k] = TRUE, !.stopPromise = "pending"]
             ELSE [r EXCEPT !.onstop[k] = TRUE, !.stopPromise = "rejected"]

\* cleanup()
cleanup(r) ==
    LET k  == r.mediaRecorder
        r1 == IF k # 0 /\ r.state[k] = "recording" THEN RecorderStop(r, k) ELSE r
    IN  [stopPreview(r1) EXCEPT !.mediaRecorder = 0, !.recordedChunks = <<>>,
                                !.cleaned = TRUE]

(* ================== the session controller (UI module) =============== *)
\* confidenceThreshold, in tenths
ConfidenceThreshold == 5
\* "Require a minimum size", in pixels
MinRoiSize == 5

\* master.timeline.frames has an entry for these frame numbers
TimelineFrames == 0 .. (FrameCount - 1)

NoPoint == [run |-> -1, frame |-> -1, x |-> 0, y |-> 0, confidence |-> 0]
\* a point the user placed by hand before any tracking run
OldPoint(f) == [run |-> 0, frame |-> f, x |-> 0, y |-> 0, confidence |-> ConfTracked]
\* new Point(track, frame, result.x, result.y)
NewPoint(run, r) ==
    [run |-> run, frame |-> r.frameNumber, x |-> r.x, y |-> r.y, confidence |-> r.confidence]

\* point.remove(): the point leaves track.points at its frame
PointRemove(pts, p) == [pts EXCEPT ![p.frame] = NoPoint]
\* point.unRemove(): the point is back in track.points at its frame
PointUnRemove(pts, p) == [pts EXCEPT ![p.frame] = p]

RECURSIVE RemoveAll(_, _)
RemoveAll(pts, ps) ==
    IF ps = <<>> THEN pts ELSE RemoveAll(PointRemove(pts, Head(ps)), Tail(ps))

RECURSIVE UnRemoveAll(_, _)
UnRemoveAll(pts, ps) ==
    IF ps = <<>> THEN pts ELSE UnRemoveAll(PointUnRemove(pts, Head(ps)), Tail(ps))

\* the undo closure of the compound action: every added point is removed
UndoAction(pts, addedPoints) == RemoveAll(pts, addedPoints)
\* the redo closure: every added point is un-removed
RedoAction_AllButLast(pts, addedPoints) ==
    UnRemoveAll(pts, SubSeq(addedPoints, 1, Len(addedPoints) - 1))
RedoAction(pts, addedPoints) == UnRemoveAll(pts, addedPoints)

\* the loop "for (const result of results)" of the commit: w.points is
\* track.points, w.added is addedPoints
RECURSIVE AddPoints(_, _, _)
AddPoints(w, run, results) ==
    IF results = <<>> THEN w
    ELSE LET r == Head(results)
         IN  IF r.frameNumber \notin TimelineFrames
             THEN AddPoints(w, run, Tail(results))
             ELSE LET existing == w.points[r.frameNumber]
                      removed  == IF existing # NoPoint
                                  THEN PointRemove(w.points, existing)
                                  ELSE w.points
                      point    == NewPoint(run, r)
                  IN  AddPoints([points |-> [removed EXCEPT ![r.frameNumber] = point],
                                 added |-> Append(w.added, point)],
                                run, Tail(results))

\* master.change(action): the action goes on top of the applied ones
UndoRegister(u, action) ==
    [stack |-> Append(SubSeq(u.stack, 1, u.index), action),
     index |-> u.index + 1,
     phase |-> "committed"]

\* master.change once for each added point
RECURSIVE RegisterEach(_, _, _, _)
RegisterEach(u, pts, after, added) ==
    IF added = <<>> THEN u
    ELSE RegisterEach(UndoRegister(u, [added |-> <<Head(added)>>, before |-> pts,
                                       after |-> after]),
                      pts, after, Tail(added))
Commit_PerPoint(pts, u, run, results) ==
    IF Len(results) > 0
    THEN LET w == AddPoints([points |-> pts, added |-> <<>>], run, results)
         IN  [points |-> w.points,
              undo |-> RegisterEach(u, pts, w.points, w.added),
              changes |-> Len(w.added)]
    ELSE [points |-> pts, undo |-> u, changes |-> 0]

\* "Add tracked points in batch": nothing when no result was accepted,
\* else the points and one compound action; before and after remember
\* track.points around the commit
Commit(pts, u, run, results) ==
    IF Len(results) > 0
    THEN LET w == AddPoints([points |-> pts, added |-> <<>>], run, results)
         IN  [points |-> w.points,
              undo |-> UndoRegister(u, [added |-> w.added, before |-> pts,
                                        after |-> w.points]),
              changes |-> 1]
    ELSE [points |-> pts, undo |-> u, changes |-> 0]

\* parseInt(text, 10) of the texts the form is given here; NaN for a text
\* that does not start with a number
NaN == -99
FormNumbers == {"", "-1", "0", "1", "2", "3", "4", "5", "1.5"}
ParseInt(text) ==
    CASE text = ""    -> NaN
      [] text = "-1"  -> -1
      [] text = "0"   -> 0
      [] text = "1"   -> 1
      [] text = "2"   -> 2
      [] text = "3"   -> 3
      [] text = "4"   -> 4
      [] text = "5"   -> 5
      [] text = "1.5" -> 1

\* the locals of a submit handler that is not running
IdleSession ==
    [pc |-> "idle", startFrame |-> 0, endFrame |-> 0, algorithm |-> "template",
     searchMargin |-> 0, results |-> <<>>, aborted |-> FALSE, video |-> "none",
     cancelListener |-> FALSE, run |-> 0, changes |-> 0, failShown |-> FALSE,
     finalMsg |-> "none", cancelledRunning |-> FALSE, acceptedAtCancel |-> <<>>,
     confirmed |-> FALSE, originalFrame |-> 0]

\* the module state when the page has loaded
InitialUI ==
    [mode |-> "default", roiRect |-> FALSE, overlays |-> 0, currentROI |-> NullROI,
     listeners |-> 0, drawing |-> FALSE, modalShown |-> FALSE,
     submitDisabled |-> FALSE, modalText |-> "none", alert |-> "none",
     currentFrame |-> 0, videoTime |-> 0,
     buttonDisabled |-> TRUE, hasTrack |-> FALSE, created |-> FALSE,
     cvLoaded |-> FALSE, clickAlert |-> "none", rejected |-> FALSE]

\* cleanupROISelection()
CleanupROISelection(u) ==
    [u EXCEPT !.overlays = IF u.roiRect THEN @ - 1 ELSE @,
              !.roiRect = FALSE,
              !.currentROI = NullROI,
              !.mode = "default"]

\* the test of the consumption loop on a result
Accepts_Always(item) == TRUE
Accepts(item) == ~(item.confidence < ConfidenceThreshold)

\* the handler with the results dropped when the run was cancelled
Finalize_DiscardOnAbort(w) ==
    LET c == Commit(w.points, w.undo, w.ses.run,
                    IF w.ses.aborted THEN <<>> ELSE w.ses.results)
    IN  [w EXCEPT !.points = c.points,
                  !.undo = c.undo,
                  !.ses.changes = @ + c.changes,
                  !.ses.cancelListener = FALSE,
                  !.ses.video = "removed",
                  !.ses.pc = "finished",
                  !.ses.finalMsg = IF Len(w.ses.results) > 0 /\ ~w.ses.aborted THEN "success"
                                   ELSE IF w.ses.aborted THEN "cancelled" ELSE "none",
                  !.ui = [CleanupROISelection(TimelineSeek(w.ui, w.ses.originalFrame)) EXCEPT
                              !.submitDisabled = FALSE,
                              !.modalText = "none",
                              !.modalShown = FALSE,
                              !.alert = IF Len(w.ses.results) > 0 /\ ~w.ses.aborted
                                        THEN "success"
                                        ELSE IF w.ses.aborted THEN "cancelled" ELSE @]]

\* from "Remove cancel listener" to the completion message: commit,
\* restore, teardown of the detached video, modal reset, overlay cleanup
Finalize(w) ==
    LET c == Commit(w.points, w.undo, w.ses.run, w.ses.results)
    IN  [w EXCEPT !.points = c.points,
                  !.undo = c.undo,
                  !.ses.changes = @ + c.changes,
                  !.ses.cancelListener = FALSE,
                  !.ses.video = "removed",
                  !.ses.pc = "finished",
                  !.ses.finalMsg = IF Len(w.ses.results) > 0 /\ ~w.ses.aborted THEN "success"
                                   ELSE IF w.ses.aborted THEN "cancelled" ELSE "none",
                  !.ui = [CleanupROISelection(TimelineSeek(w.ui, w.ses.originalFrame)) EXCEPT
                              !.submitDisabled = FALSE,
                              !.modalText = "none",
                              !.modalShown = FALSE,
                              !.alert = IF Len(w.ses.results) > 0 /\ ~w.ses.aborted
                                        THEN "success"
                                        ELSE IF w.ses.aborted THEN "cancelled" ELSE @]]

\* the catch clause swallowing every error
AfterLoop_Silent(w) == Finalize(w)
\* the end of the try statement: an error that is not a cancellation is
\* shown and awaited, anything else goes on to the commit
AfterLoop(w) ==
    IF w.gen.pc = "threw" /\ ~w.ses.aborted
    THEN [w EXCEPT !.ses.pc = "failAlert", !.ses.failShown = TRUE, !.ui.alert = "failed"]
    ELSE Finalize(w)

\* the for await loop from a resumption of the generator to the next
\* point where the handler waits: a pending seek or timer of the tracker,
\* the failure alert, or its end
RECURSIVE Drive(_)
Drive(w) ==
    LET g == w.gen
        item == g.out[Len(g.out)]
    IN  CASE g.pc \in {"seekStart", "seekFrame", "sleep"} -> {w}
          [] g.pc = "atProgress" ->
                UNION {Drive([w EXCEPT !.gen = g2, !.ui.modalText = "progress"]) :
                       g2 \in GenNext(g)}
          [] g.pc \in {"atResult", "atFinal"} ->
                IF Accepts(item)
                THEN UNION {Drive([w EXCEPT !.gen = g2,
                                            !.ses.results = Append(@, item)]) :
                            g2 \in GenNext(g)}
                ELSE {AfterLoop([w EXCEPT !.gen = g2, !.ui.modalText = "lost"]) :
                      g2 \in GenReturn(g)}
          [] g.pc \in {"done", "threw"} -> {AfterLoop(w)}

World(h) == [gen |-> gen[h], ses |-> ses[h], ui |-> ui, points |-> points, undo |-> undo]

\* video.currentTime = time of seekToFrame, as the display sees it: the
\* position of the primary video moves when the tracker was given it
SeenByDisplay(w) ==
    IF w.gen.cfg.video = "primary" /\ w.ses.pc \in {"running", "failAlert"}
    THEN [w.ui EXCEPT !.videoTime = w.gen.videoTime]
    ELSE w.ui

\* the state after a step of the handler of slot h
Becomes(h, w) ==
    /\ gen' = [gen EXCEPT ![h] = w.gen]
    /\ ses' = [ses EXCEPT ![h] = w.ses]
    /\ ui' = SeenByDisplay(w)
    /\ points' = w.points
    /\ undo' = w.undo

(* ----------------------- the actions of a session -------------------- *)
\* regions the user can draw, in Q, at least MinRoiSize pixels each way
SessionROIs == {ROI(0, 0, 4 * MinRoiSize, 4 * MinRoiSize)}

\* maximal number of stage listener sets, and of overlay shapes, at once
MaxListeners == 1

NoHandlerActive == \A h \in Slots : ses[h].pc \in {"idle", "finished", "crashed"}

\* no selection is under way and the configuration modal is closed
NoSelection == ui.mode = "default" /\ ~ui.modalShown /\ ~ui.drawing /\ ~ui.roiRect

\* startROISelection(): the mode, the overlay shape, the stage listeners;
\* alert and rejected start to record the new selection
StartROISelection(u) ==
    [u EXCEPT !.mode = "autotrack-roi", !.roiRect = TRUE,
              !.overlays = @ + 1, !.listeners = @ + 1,
              !.rejected = FALSE, !.alert = "none"]

\* what the click handler does to the module state; cvLoads tells whether
\* the promise of loadOpenCV() resolves
ClickOutcome_NoReturn(u, cvLoads) ==
    IF u.buttonDisabled THEN u
    ELSE IF ~u.hasTrack THEN StartROISelection([u EXCEPT !.clickAlert = "track"])
    ELSE IF ~u.created THEN StartROISelection([u EXCEPT !.clickAlert = "project"])
    ELSE IF ~cvLoads THEN StartROISelection([u EXCEPT !.clickAlert = "opencv"])
    ELSE StartROISelection([u EXCEPT !.cvLoaded = TRUE])
ClickOutcome(u, cvLoads) ==
    IF u.buttonDisabled THEN u
    ELSE IF ~u.hasTrack THEN [u EXCEPT !.clickAlert = "track"]
    ELSE IF ~u.created THEN [u EXCEPT !.clickAlert = "project"]
    ELSE IF ~cvLoads THEN [u EXCEPT !.clickAlert = "opencv"]
    ELSE StartROISelection([u EXCEPT !.cvLoaded = TRUE])

\* the click handler of the auto-track button
AutoTrackClick(cvLoads) ==
    /\ NoHandlerActive
    /\ runs < MaxRuns
    /\ ui.clickAlert = "none"
    /\ ~ui.modalShown
    /\ ~ui.drawing
    /\ ui.listeners < MaxListeners
    /\ ui.overlays < MaxListeners
    /\ ui.cvLoaded => cvLoads
    /\ ui' = ClickOutcome(ui, cvLoads)
    /\ gen' = [h \in Slots |-> NoGen]
    /\ ses' = [h \in Slots |-> IdleSession]
    /\ UNCHANGED <<points, undo, runs, loader, webcam, seek>>

\* the blocking message of the click handler is dismissed
ClickAlertDismissed ==
    /\ ui.clickAlert # "none"
    /\ ui' = [ui EXCEPT !.clickAlert = "none"]
    /\ UNCHANGED <<gen, ses, points, undo, runs, loader, webcam, seek>>

\* the 'created' event of master: the button is enabled
ProjectCreated ==
    /\ ~ui.created
    /\ ui.clickAlert = "none"
    /\ ui' = [ui EXCEPT !.created = TRUE, !.buttonDisabled = FALSE]
    /\ UNCHANGED <<gen, ses, points, undo, runs, loader, webcam, seek>>

\* the user steps the timeline to frame 1 before creating a track
UserSeeks ==
    /\ ui.created /\ ~ui.hasTrack
    /\ ui.clickAlert = "none"
    /\ ui.currentFrame = 0
    /\ ui' = TimelineSeek(ui, GetFrameStart(1))
    /\ UNCHANGED <<gen, ses, points, undo, runs, loader, webcam, seek>>

\* the user creates a track and places the points pts by hand
TrackCreated(pts) ==
    /\ ui.created /\ ~ui.hasTrack
    /\ ui.clickAlert = "none"
    /\ ui' = [ui EXCEPT !.hasTrack = TRUE]
    /\ points' = pts
    /\ UNCHANGED <<gen, ses, undo, runs, loader, webcam, seek>>

\* onMouseDown of every registered listener set
MouseDown ==
    /\ ui.listeners > 0
    /\ ~ui.drawing
    /\ ~ui.modalShown
    /\ ui' = [ui EXCEPT !.drawing = TRUE]
    /\ UNCHANGED <<gen, ses, points, undo, runs, loader, webcam, seek>>

\* onPressUp with a region below the minimum size: cleanupROISelection()
\* and an alert; the stage listeners stay.  rejected remembers that no
\* click on the button has followed
PressUpTooSmall ==
    /\ ui.drawing
    /\ ui' = [CleanupROISelection(ui) EXCEPT !.drawing = FALSE, !.alert = "larger",
                                             !.rejected = TRUE]
    /\ UNCHANGED <<gen, ses, points, undo, runs, loader, webcam, seek>>

\* onPressUp with a region of at least the minimum size: the region is
\* stored, the listeners are removed, the modal is shown
PressUp(roi) ==
    /\ ui.drawing
    /\ ui' = [ui EXCEPT !.drawing = FALSE, !.currentROI = roi, !.listeners = 0,
                        !.mode = "default", !.modalShown = TRUE]
    /\ UNCHANGED <<gen, ses, points, undo, runs, loader, webcam, seek>>

\* autoTrackModal.on('cancel')
ModalCancel ==
    /\ ui.modalShown
    /\ ui' = [CleanupROISelection(ui) EXCEPT !.modalShown = FALSE]
    /\ UNCHANGED <<gen, ses, points, undo, runs, loader, webcam, seek>>

\* the count with the loop stopping before endFrame
ExistingCount_BeforeEnd(pts, startFrame, endFrame) ==
    Cardinality({f \in (startFrame + 1) .. (endFrame - 1) :
                    f \in DOMAIN pts /\ pts[f] # NoPoint})
\* the number of existing points in startFrame+1..endFrame
ExistingCount(pts, startFrame, endFrame) ==
    Cardinality({f \in (startFrame + 1) .. endFrame :
                    f \in DOMAIN pts /\ pts[f] # NoPoint})

\* the validation without its range test
Validate_NoRangeCheck(algorithm, startFrame, endFrame, searchMargin) ==
    IF algorithm # "template" /\ algorithm # "optical-flow" THEN "algorithm"
    ELSE IF startFrame = NaN \/ endFrame = NaN \/ searchMargin = NaN THEN "numbers"
    ELSE IF startFrame >= endFrame THEN "order"
    ELSE "ok"
\* the message of the validation that fails, "ok" when none does
Validate(algorithm, startFrame, endFrame, searchMargin) ==
    IF algorithm # "template" /\ algorithm # "optical-flow" THEN "algorithm"
    ELSE IF startFrame = NaN \/ endFrame = NaN \/ searchMargin = NaN THEN "numbers"
    ELSE IF startFrame >= endFrame THEN "order"
    ELSE IF startFrame < 0 \/ endFrame > FrameCount THEN "range"
    ELSE "ok"

\* const originalFrame = master.timeline.currentFrame;
\* const trackingVideo = document.createElement('video') ... load()
StartPreload(s, u) ==
    [s EXCEPT !.pc = "preload", !.video = "loading", !.originalFrame = u.currentFrame]

\* the handler calling cleanupROISelection() when it rejects the form
Submit_CleanupOnReject(h, data) ==
    LET startFrame == ParseInt(data.startFrame)
        endFrame == ParseInt(data.endFrame)
        searchMargin == ParseInt(data.searchMargin)
        verdict == Validate(data.algorithm, startFrame, endFrame, searchMargin)
        s == [IdleSession EXCEPT !.startFrame = startFrame, !.endFrame = endFrame,
                                 !.algorithm = data.algorithm,
                                 !.searchMargin = searchMargin, !.run = runs + 1]
    IN  /\ ui.modalShown
        /\ ~ui.submitDisabled
        /\ ~ui.currentROI.null
        /\ ui.hasTrack
        /\ IF verdict # "ok"
           THEN /\ ui' = [CleanupROISelection(ui) EXCEPT !.alert = verdict]
                /\ UNCHANGED <<gen, ses, points, undo, runs, loader, webcam, seek>>
           ELSE /\ runs < MaxRuns
                /\ runs' = runs + 1
                /\ gen' = [gen EXCEPT ![h] = NoGen]
                /\ ses' = [ses EXCEPT ![h] =
                             IF ExistingCount(points, startFrame, endFrame) > 0
                             THEN [s EXCEPT !.pc = "confirm"]
                             ELSE StartPreload(s, ui)]
                /\ UNCHANGED <<ui, points, undo, loader, webcam, seek>>
\* autoTrackModal.on('submit') up to its first await that waits; cap bounds
\* the number of runs that are followed
SubmitHandler(h, data, cap) ==
    LET startFrame == ParseInt(data.startFrame)
        endFrame == ParseInt(data.endFrame)
        searchMargin == ParseInt(data.searchMargin)
        verdict == Validate(data.algorithm, startFrame, endFrame, searchMargin)
        s == [IdleSession EXCEPT !.startFrame = startFrame, !.endFrame = endFrame,
                                 !.algorithm = data.algorithm,
                                 !.searchMargin = searchMargin, !.run = runs + 1]
    IN  /\ ui.modalShown
        /\ ~ui.submitDisabled
        /\ ~ui.currentROI.null
        /\ ui.hasTrack
        /\ IF verdict # "ok"
           THEN /\ ui' = [ui EXCEPT !.alert = verdict]
                /\ UNCHANGED <<gen, ses, points, undo, runs, loader, webcam, seek>>
           ELSE /\ runs < cap
                /\ runs' = runs + 1
                /\ gen' = [gen EXCEPT ![h] = NoGen]
                /\ ses' = [ses EXCEPT ![h] =
                             IF ExistingCount(points, startFrame, endFrame) > 0
                             THEN [s EXCEPT !.pc = "confirm"]
                             ELSE StartPreload(s, ui)]
                /\ UNCHANGED <<ui, points, undo, loader, webcam, seek>>
\* a submit event, with at most MaxRuns runs followed
Submit(h, data) == SubmitHandler(h, data, MaxRuns)

\* the answer to confirmModal
ConfirmAnswer(h, confirmed) ==
    /\ ses[h].pc = "confirm"
    /\ ses' = [ses EXCEPT ![h] = IF confirmed
                                 THEN StartPreload([@ EXCEPT !.confirmed = TRUE], ui)
                                 ELSE [@ EXCEPT !.pc = "idle"]]
    /\ UNCHANGED <<gen, ui, points, undo, runs, loader, webcam, seek>>

\* the configuration built around the primary video of the timeline
TrackingConfig_PrimaryVideo(s, u) ==
    [algorithm |-> s.algorithm, startFrame |-> s.startFrame,
     endFrame |-> s.endFrame, roi |-> u.currentROI,
     searchMargin |-> s.searchMargin,
     videoWidth |-> VideoW, videoHeight |-> VideoH, video |-> "primary"]
\* const config: TrackingConfig = { video: trackingVideo, roi: currentROI, ... }
TrackingConfig(s, u) ==
    [algorithm |-> s.algorithm, startFrame |-> s.startFrame,
     endFrame |-> s.endFrame, roi |-> u.currentROI,
     searchMargin |-> s.searchMargin,
     videoWidth |-> VideoW, videoHeight |-> VideoH, video |-> "detached"]

\* loadeddata of the detached video: the configuration is built, the
\* submit button disabled, the cancel listener added, and the for await
\* loop runs to its first wait
VideoLoaded(h) ==
    /\ ses[h].pc = "preload"
    /\ LET cfg == TrackingConfig(ses[h], ui)
           w0 == [World(h) EXCEPT !.ses.pc = "running", !.ses.video = "ready",
                                  !.ses.cancelListener = TRUE,
                                  !.ui.submitDisabled = TRUE]
       IN  \E g \in GenNext(NewGen(cfg, IF cfg.video = "primary" THEN ui.videoTime ELSE 0)) :
             \E w \in Drive([w0 EXCEPT !.gen = g]) : Becomes(h, w)
    /\ UNCHANGED <<runs, loader, webcam, seek>>

\* the error event of the detached video, or the 10 second timer: the
\* promise rejects outside any try, so the handler ends there
VideoFailed(h) ==
    /\ ses[h].pc = "preload"
    /\ ses' = [ses EXCEPT ![h].pc = "crashed"]
    /\ UNCHANGED <<gen, ui, points, undo, runs, loader, webcam, seek>>

\* a step of the tracker of a running session, and the loop after it
Resumed(h, gs) ==
    /\ ses[h].pc = "running"
    /\ \E g \in gs : \E w \in Drive([World(h) EXCEPT !.gen = g]) : Becomes(h, w)
    /\ UNCHANGED <<runs, loader, webcam, seek>>

SessionSeeked(h) == AtSeek(gen[h]) /\ Resumed(h, GenSeeked(gen[h]))
SessionSeekTimedOut(h) == AtSeek(gen[h]) /\ Resumed(h, GenSeekTimeout(gen[h]))
SessionTimerFired(h) == gen[h].pc = "sleep" /\ Resumed(h, GenTimer(gen[h]))

\* cancelTracking, the click listener on the cancel button (once)
CancelTracking(h) ==
    /\ ses[h].cancelListener
    /\ ses' = [ses EXCEPT ![h].aborted = TRUE,
                          ![h].cancelListener = FALSE,
                          ![h].cancelledRunning = (ses[h].pc = "running"),
                          ![h].acceptedAtCancel = ses[h].results]
    /\ gen' = [gen EXCEPT ![h] = GenAbort(@)]
    /\ UNCHANGED <<ui, points, undo, runs, loader, webcam, seek>>

\* the failure alert is dismissed
FailureDismissed_Discards(h) ==
    /\ ses[h].pc = "failAlert"
    /\ Becomes(h, Finalize([World(h) EXCEPT !.ses.results = <<>>]))
    /\ UNCHANGED <<runs, loader, webcam, seek>>
FailureDismissed(h) ==
    /\ ses[h].pc = "failAlert"
    /\ Becomes(h, Finalize(World(h)))
    /\ UNCHANGED <<runs, loader, webcam, seek>>

\* the undo system runs the undo closure of the last applied action
UndoStep ==
    /\ NoHandlerActive
    /\ NoSelection
    /\ undo.index > 0
    /\ points' = UndoAction(points, undo.stack[undo.index].added)
    /\ undo' = [undo EXCEPT !.index = @ - 1,
                            !.phase = IF @ = "committed" THEN "undone" ELSE "other"]
    /\ UNCHANGED <<gen, ses, ui, runs, loader, webcam, seek>>

\* the undo system runs the redo closure of the last undone action
RedoStep ==
    /\ NoHandlerActive
    /\ NoSelection
    /\ undo.index < Len(undo.stack)
    /\ points' = RedoAction(points, undo.stack[undo.index + 1].added)
    /\ undo' = [undo EXCEPT !.index = @ + 1,
                            !.phase = IF @ = "undone" THEN "redone" ELSE "other"]
    /\ UNCHANGED <<gen, ses, ui, runs, loader, webcam, seek>>

\* what the user submits: well-formed entries for both algorithms (a
\* range that ends on the last frame or one past it, a start that is
\* not a whole number, a negative margin), and one entry for each way an
\* entry can be malformed
Form(algorithm, startFrame, endFrame, searchMargin) ==
    [algorithm |-> algorithm, startFrame |-> startFrame, endFrame |-> endFrame,
     searchMargin |-> searchMargin]

FormData ==
    {Form("template", "0", "2", "1"),
     Form("template", "0", "3", "1"),
     Form("template", "0", "2", "-1"),
     Form("template", "1.5", "2", "1"),
     Form("optical-flow", "0", "2", "1"),
     Form("optical-flow", "1.5", "3", "1"),
     Form("flow", "0", "2", "1"),
     Form("template", "", "2", "1"),
     Form("template", "0", "2", ""),
     Form("template", "1.5", "0", "1"),
     Form("template", "-1", "2", "1"),
     Form("optical-flow", "0", "5", "1")}

\* the points placed by hand before the session: none, one on frame 1,
\* one on every frame after frame 0
InitialPoints ==
    {[f \in TimelineFrames |-> IF f \in old THEN OldPoint(f) ELSE NoPoint] :
        old \in {{}, {1}, TimelineFrames \ {0}}}

\* the page as loaded: the markup may or may not disable the button
InitialUIs == {[InitialUI EXCEPT !.buttonDisabled = d] : d \in BOOLEAN}

SessionRest ==
    /\ ses = [h \in Slots |-> IdleSession]
    /\ undo = [stack |-> <<>>, index |-> 0, phase |-> "other"]
    /\ runs = 0

SessionInit ==
    /\ gen = [h \in Slots |-> NoGen]
    /\ SessionRest
    /\ loader = InitialLoader(FALSE)
    /\ webcam = InitialWebcam
    /\ seek = InitialSeek
    /\ ui \in InitialUIs
    /\ points = [f \in TimelineFrames |-> NoPoint]

SessionNext ==
    \/ ProjectCreated
    \/ UserSeeks
    \/ \E pts \in InitialPoints : TrackCreated(pts)
    \/ \E cvLoads \in BOOLEAN : AutoTrackClick(cvLoads)
    \/ ClickAlertDismissed
    \/ MouseDown
    \/ PressUpTooSmall
    \/ \E roi \in SessionROIs : PressUp(roi)
    \/ ModalCancel
    \/ NoHandlerActive /\ \E data \in FormData : Submit(1, data)
    \/ \E confirmed \in BOOLEAN : ConfirmAnswer(1, confirmed)
    \/ VideoLoaded(1)
    \/ VideoFailed(1)
    \/ SessionSeeked(1)
    \/ SessionSeekTimedOut(1)
    \/ SessionTimerFired(1)
    \/ CancelTracking(1)
    \/ FailureDismissed(1)
    \/ UndoStep
    \/ RedoStep

SessionSpec == SessionInit /\ [][SessionNext]_vars

(* ------------------- the tracker under any consumer ------------------- *)
TrackerInit ==
    /\ \E cfg \in TemplateConfigs \cup FlowConfigs :
          gen = [h \in Slots |-> IF h = 1 THEN NewGen(cfg, 0) ELSE NoGen]
    /\ SessionRest
    /\ loader = InitialLoader(FALSE)
    /\ webcam = InitialWebcam
    /\ seek = InitialSeek
    /\ ui = InitialUI
    /\ points = [f \in TimelineFrames |-> NoPoint]

\* the consumer pulls the next item
ConsumerNext ==
    /\ AtYield(gen[1])
    /\ \E g \in GenNext(gen[1]) : gen' = [gen EXCEPT ![1] = g]
    /\ UNCHANGED sessionVars

\* the consumer stops iterating (break out of for await)
ConsumerReturn ==
    /\ AtYield(gen[1])
    /\ \E g \in GenReturn(gen[1]) : gen' = [gen EXCEPT ![1] = g]
    /\ UNCHANGED sessionVars

SeekSeeked(h) ==
    /\ AtSeek(gen[h])
    /\ \E g \in GenSeeked(gen[h]) : gen' = [gen EXCEPT ![h] = g]
    /\ UNCHANGED sessionVars

SeekTimedOut(h) ==
    /\ AtSeek(gen[h])
    /\ \E g \in GenSeekTimeout(gen[h]) : gen' = [gen EXCEPT ![h] = g]
    /\ UNCHANGED sessionVars

YieldTimerFired(h) ==
    /\ gen[h].pc = "sleep"
    /\ \E g \in GenTimer(gen[h]) : gen' = [gen EXCEPT ![h] = g]
    /\ UNCHANGED sessionVars

\* whoever holds the AbortController aborts it
SignalAborted ==
    /\ gen[1].pc # "none"
    /\ ~gen[1].aborted
    /\ gen' = [gen EXCEPT ![1] = GenAbort(gen[1])]
    /\ UNCHANGED sessionVars

TrackerNext ==
    \/ ConsumerNext
    \/ ConsumerReturn
    \/ SeekSeeked(1)
    \/ SeekTimedOut(1)
    \/ YieldTimerFired(1)
    \/ SignalAborted

Spec == TrackerInit /\ [][TrackerNext]_vars

(* ------------- a submit event during a session under way ------------ *)
\* between an accepted submit and the end of the handler
Active(s) == s.pc \in {"confirm", "preload", "running", "failAlert"}

ReentryForms ==
    {Form("template", "0", "2", "1"),
     Form("optical-flow", "0", "2", "1"),
     Form("flow", "0", "2", "1")}

\* the first submit event of the page
FirstSubmit(data) == ses[1].pc = "idle" /\ ses[2].pc = "idle" /\ Submit(1, data)

\* a submit event while the handler of the first one is still under way
SecondSubmit(data) ==
    /\ Active(ses[1])
    /\ ses[2].pc = "idle"
    /\ SubmitHandler(2, data, MaxRuns + 1)

ReentryNext ==
    \/ ProjectCreated
    \/ \E pts \in InitialPoints : TrackCreated(pts)
    \/ \E cvLoads \in BOOLEAN : AutoTrackClick(cvLoads)
    \/ ClickAlertDismissed
    \/ MouseDown
    \/ \E roi \in SessionROIs : PressUp(roi)
    \/ \E data \in ReentryForms : FirstSubmit(data)
    \/ \E data \in ReentryForms : SecondSubmit(data)
    \/ \E h \in Slots, confirmed \in BOOLEAN : ConfirmAnswer(h, confirmed)
    \/ \E h \in Slots : VideoLoaded(h)
    \/ \E h \in Slots : VideoFailed(h)
    \/ \E h \in Slots : SessionSeeked(h)
    \/ \E h \in Slots : SessionSeekTimedOut(h)
    \/ \E h \in Slots : SessionTimerFired(h)
    \/ \E h \in Slots : CancelTracking(h)
    \/ \E h \in Slots : FailureDismissed(h)

ReentrySpec == SessionInit /\ [][ReentryNext]_vars

\* the tracker when every pending seek fires seeked or its 5 s timer, the
\* zero-delay timer between frames fires, and the consumer keeps pulling
LiveConfigs ==
    {c \in TemplateConfigs : c.roi \in {ROI(2, 0, 6, 4), ROI(-4, 6, 2, 4 * VideoH)}}
        \cup FlowConfigs

LiveInit ==
    /\ \E cfg \in LiveConfigs :
          gen = [h \in Slots |-> IF h = 1 THEN NewGen(cfg, 0) ELSE NoGen]
    /\ SessionRest
    /\ loader = InitialLoader(FALSE)
    /\ webcam = InitialWebcam
    /\ seek = InitialSeek
    /\ ui = InitialUI
    /\ points = [f \in TimelineFrames |-> NoPoint]

LiveSpec ==
    /\ LiveInit
    /\ [][TrackerNext]_vars
    /\ WF_vars(ConsumerNext)
    /\ WF_vars(SeekSeeked(1) \/ SeekTimedOut(1))
    /\ WF_vars(YieldTimerFired(1))

(* ------------------- the loader under any callers -------------------- *)
LoaderInit ==
    /\ gen = [h \in Slots |-> NoGen]
    /\ SessionRest
    /\ ui = InitialUI
    /\ points = [f \in TimelineFrames |-> NoPoint]
    /\ loader \in {InitialLoader(c) : c \in BOOLEAN}
    /\ webcam = InitialWebcam
    /\ seek = InitialSeek

\* some code calls loadOpenCV()
LoaderCalled ==
    /\ Len(loader.calls) < MaxCalls
    /\ loader.cvReady = 0 => Created(loader) < MaxLoads
    /\ loader' = loadOpenCV(loader)
    /\ UNCHANGED <<gen, ses, ui, points, undo, runs, webcam, seek>>

\* the browser could not load the script
ScriptFailed(k) ==
    /\ loader.script[k] = "loading"
    /\ loader' = ScriptOnError(loader, k)
    /\ UNCHANGED <<gen, ses, ui, points, undo, runs, webcam, seek>>

\* the script ran and its runtime became ready
RuntimeReady(k) ==
    /\ loader.script[k] = "loading"
    /\ loader' = OnRuntimeInitialized(loader, k)
    /\ UNCHANGED <<gen, ses, ui, points, undo, runs, webcam, seek>>

\* the caller of call i is resumed once the promise it awaits is settled
CallerResumed(i) ==
    /\ i \in 1 .. Len(loader.calls)
    /\ loader.calls[i].caller = "awaiting"
    /\ loader.promise[loader.calls[i].promise] # "pending"
    /\ loader' = Awaited(loader, i)
    /\ UNCHANGED <<gen, ses, ui, points, undo, runs, webcam, seek>>

LoaderNext ==
    \/ LoaderCalled
    \/ \E i \in 1 .. MaxCalls : CallerResumed(i)
    \/ \E k \in Loads : ScriptFailed(k)
    \/ \E k \in Loads : RuntimeReady(k)

LoaderSpec == LoaderInit /\ [][LoaderNext]_vars

(* --------------- the WebcamRecorder under any caller ---------------- *)
WebcamInit ==
    /\ gen = [h \in Slots |-> NoGen]
    /\ SessionRest
    /\ ui = InitialUI
    /\ points = [f \in TimelineFrames |-> NoPoint]
    /\ loader = InitialLoader(FALSE)
    /\ webcam = InitialWebcam
    /\ seek = InitialSeek

StartPreview ==
    /\ webcam' = startPreview(webcam)
    /\ UNCHANGED <<gen, ses, ui, points, undo, runs, loader, seek>>

StartRecording ==
    /\ webcam.stream
    /\ webcam.created < MaxRecorders
    /\ webcam' = startRecording(webcam)
    /\ UNCHANGED <<gen, ses, ui, points, undo, runs, loader, seek>>

\* recorder k delivers data: every 100 ms while it records, and once
\* more after it was stopped
DataAvailable(k, nonEmpty) ==
    /\ webcam.state[k] \in {"recording", "stopping"}
    /\ nonEmpty => webcam.emitted[k] < MaxChunks
    /\ webcam' = ondataavailable(webcam, k, nonEmpty)
    /\ UNCHANGED <<gen, ses, ui, points, undo, runs, loader, seek>>

StopEvent(k) ==
    /\ webcam.state[k] = "stopEvent"
    /\ webcam' = onstop(webcam, k)
    /\ UNCHANGED <<gen, ses, ui, points, undo, runs, loader, seek>>

StopRecording ==
    /\ webcam.stopPromise # "pending"
    /\ webcam' = stopRecording(webcam)
    /\ UNCHANGED <<gen, ses, ui, points, undo, runs, loader, seek>>

Cleanup ==
    /\ webcam' = cleanup(webcam)
    /\ UNCHANGED <<gen, ses, ui, points, undo, runs, loader, seek>>

WebcamNext ==
    \/ StartPreview
    \/ StartRecording
    \/ \E k \in Recorders, nonEmpty \in BOOLEAN : DataAvailable(k, nonEmpty)
    \/ \E k \in Recorders : StopEvent(k)
    \/ StopRecording
    \/ Cleanup

WebcamSpec == WebcamInit /\ [][WebcamNext]_vars

(* ----------------- seekToFrame on one video element ----------------- *)
SeekInit ==
    /\ gen = [h \in Slots |-> NoGen]
    /\ SessionRest
    /\ ui = InitialUI
    /\ points = [f \in TimelineFrames |-> NoPoint]
    /\ loader = InitialLoader(FALSE)
    /\ webcam = InitialWebcam
    /\ seek = InitialSeek

\* a tracker calls seekToFrame once the call before has settled
SeekCalled(time) ==
    /\ seek.calls < MaxSeeks
    /\ seek.calls > 0 => seek.promise[seek.calls] # "pending"
    /\ seek' = seekToFrame(seek, time)
    /\ UNCHANGED <<gen, ses, ui, points, undo, runs, loader, webcam>>

\* the seek of the element completes, also after the call gave up on it
MediaSeeked ==
    /\ seek.seeking
    /\ seek' = DispatchSeeked([seek EXCEPT !.seeking = FALSE], seek.listeners)
    /\ UNCHANGED <<gen, ses, ui, points, undo, runs, loader, webcam>>

\* 5 seconds have passed since call c set its timer
SeekTimerFired(c) ==
    /\ c \in seek.timers
    /\ seek' = onTimeout(seek, c)
    /\ UNCHANGED <<gen, ses, ui, points, undo, runs, loader, webcam>>

SeekNext ==
    \/ \E f \in 0 .. MaxFrame : SeekCalled(GetFrameStart(f))
    \/ MediaSeeked
    \/ \E c \in SeekCalls : SeekTimerFired(c)

SeekSpec == SeekInit /\ [][SeekNext]_vars

(* ============================ the claims ============================== *)
ResultsOf(out) == SelectSeq(out, LAMBDA i : i.type = "result")
ProgressOf(out) == SelectSeq(out, LAMBDA i : i.type = "progress")
StrictlyIncreasing(q) == \A i \in 1 .. Len(q) - 1 : q[i] < q[i + 1]
ResultFrames(g) == [i \in 1 .. Len(ResultsOf(g.out)) |-> ResultsOf(g.out)[i].frameNumber]
ProgressFrames(g) ==
    [i \in 1 .. Len(ProgressOf(g.out)) |-> g.cfg.startFrame + ProgressOf(g.out)[i].frame]
Tracked(g) == (g.cfg.startFrame + 1) .. g.cfg.endFrame

\* C1: for either tracker the frame numbers of the yielded results are
\* strictly increasing and lie in startFrame+1..endFrame, and so do the
\* absolute frames startFrame + progress.frame of the progress records.
C1_FramesInOrder ==
    LET g == gen[1]
    IN  /\ StrictlyIncreasing(ResultFrames(g))
        /\ StrictlyIncreasing(ProgressFrames(g))
        /\ \A i \in DOMAIN ResultFrames(g) : ResultFrames(g)[i] \in Tracked(g)
        /\ \A i \in DOMAIN ProgressFrames(g) : ProgressFrames(g)[i] \in Tracked(g)

\* both trackers get to yield two results and two progress records
C1_Witness ==
    /\ Len(ResultsOf(gen[1].out)) >= 2
    /\ Len(ProgressOf(gen[1].out)) >= 2
    /\ gen[1].pc = "done"

\* C2: when the signal is aborted after the result of frame K was yielded
\* and before the loop top of frame K+1 (startFrame < K < endFrame), the
\* tracker has yielded K - startFrame results and yields nothing more.
AbortedBetweenFrames(g) ==
    /\ g.abortAt.pc \in {"atResult", "atFinal", "sleep"}
    /\ g.cfg.startFrame < g.abortAt.frame
    /\ g.abortAt.frame < g.cfg.endFrame

C2_AbortBetweenFrames ==
    LET g == gen[1]
    IN  AbortedBetweenFrames(g) =>
            /\ Len(g.out) = g.abortAt.nOut
            /\ Len(ResultsOf(g.out)) = g.abortAt.frame - g.cfg.startFrame

\* aborted after a tracked result, and the tracker has then ended at the loop top
C2_Witness ==
    /\ AbortedBetweenFrames(gen[1])
    /\ gen[1].abortAt.pc \in {"atResult", "sleep"}
    /\ gen[1].pc = "done"

\* C3: when a run has ended, by completion, cancellation, tracking lost,
\* the consumer's return() or a failed seek, no native buffer it allocated
\* is still live.
C3_NoLiveBufferAtEnd ==
    Finished(gen[1]) => gen[1].live = {}

\* an optical-flow run that carried buffers forward and then ended by a
\* failed seek inside the loop
C3_Witness ==
    /\ ~IsTemplate(gen[1])
    /\ gen[1].pc = "threw"
    /\ gen[1].error = "seek"
    /\ Len(ResultsOf(gen[1].out)) >= 1
    /\ gen[1].live = {}

\* C4: an optical-flow run yields only confidences 1 and 0; when the
\* status is lost at frame F it yields one result for F with confidence 0,
\* nothing after it, and ends without raising an error.
C4_LostEndsNormally ==
    LET g == gen[1]
        rs == ResultsOf(g.out)
    IN  ~IsTemplate(g) =>
          /\ \A i \in 1 .. Len(rs) : rs[i].confidence \in {ConfTracked, ConfLost}
          /\ g.lostAt # 0 =>
                /\ g.out[Len(g.out)].type = "result"
                /\ g.out[Len(g.out)].frameNumber = g.lostAt
                /\ g.out[Len(g.out)].confidence = ConfLost
                /\ Len(SelectSeq(rs, LAMBDA r : r.frameNumber = g.lostAt)) = 1
                /\ g.pc \in {"atFinal", "done"}

\* C5: in a template run whose template cannot fit the clamped search
\* window on frame startFrame+1, the tracker yields exactly one result,
\* for startFrame+1, with confidence 0 at the centre of the clamped region,
\* and then ends without an error and without yielding anything more.
FirstFrameCannotFit(cfg) ==
    LET r == RoiRect(cfg.roi, cfg.videoWidth, cfg.videoHeight)
        m == cfg.searchMargin
        sx == clamp(r.x - m, 0, cfg.videoWidth - 1)
        sy == clamp(r.y - m, 0, cfg.videoHeight - 1)
    IN  \/ Min(r.width + 2 * m, cfg.videoWidth - sx) < r.width
        \/ Min(r.height + 2 * m, cfg.videoHeight - sy) < r.height

C5_OneZeroResult ==
    LET g == gen[1]
        r == RoiRect(g.cfg.roi, g.cfg.videoWidth, g.cfg.videoHeight)
        total == g.cfg.endFrame - g.cfg.startFrame
    IN  (IsTemplate(g) /\ FirstFrameCannotFit(g.cfg)) =>
          /\ Len(ResultsOf(g.out)) <= 1
          /\ g.pc # "atResult"
          /\ Len(ResultsOf(g.out)) = 1 =>
                /\ g.out = <<Progress(1, total),
                             Result(g.cfg.startFrame + 1, 4 * r.x + 2 * r.width,
                                    4 * r.y + 2 * r.height, ConfLost)>>
                /\ g.pc \in {"atFinal", "done"}

\* the one zero-confidence result was yielded and the run has ended,
\* with later frames left untracked
C5_Witness ==
    /\ IsTemplate(gen[1])
    /\ FirstFrameCannotFit(gen[1].cfg)
    /\ Len(ResultsOf(gen[1].out)) = 1
    /\ gen[1].pc = "done"
    /\ gen[1].cfg.endFrame > gen[1].cfg.startFrame + 1

\* C6: a session registers an undo action with master.change exactly once
\* when it accepted at least one result, for the whole batch of points it
\* added, and never once per point; a session that accepted none
\* registers nothing.
Committable(results) == SelectSeq(results, LAMBDA r : r.frameNumber \in TimelineFrames)

C6_OneCompoundAction ==
    LET s == ses[1]
    IN  /\ s.pc # "finished" => s.changes = 0
        /\ s.pc = "finished" =>
              /\ s.changes = IF Len(s.results) > 0 THEN 1 ELSE 0
              /\ (s.changes = 1 /\ undo.phase = "committed") =>
                    /\ undo.index = Len(undo.stack)
                    /\ Len(undo.stack[undo.index].added) = Len(Committable(s.results))

\* a session has committed two points under one action
C6_Witness ==
    /\ ses[1].pc = "finished"
    /\ ses[1].changes = 1
    /\ undo.phase = "committed"
    /\ Len(undo.stack[undo.index].added) >= 2

\* C7: the undo of the compound action of a commit restores track.points
\* to the mapping it had before the run: the added points are gone and
\* every point the commit overwrote is back at its frame.
C7_UndoRestores ==
    undo.phase = "undone" => points = undo.stack[undo.index + 1].before

\* C8: undo and then redo of the compound action of a commit gives the
\* mapping track.points had right after the commit.
C8_RedoReAdds ==
    undo.phase = "redone" => points = undo.stack[undo.index].after

\* a commit of two points, one of them over an older point, undone and redone
C8_Witness ==
    /\ undo.phase = "redone"
    /\ Len(undo.stack[undo.index].added) >= 2
    /\ undo.stack[undo.index].before # [f \in TimelineFrames |-> NoPoint]

\* C9: the session accepts a result only if its confidence is at least
\* 0.5 and the first result below 0.5 ends the consumption: the accepted
\* results are the results of frames startFrame+1..K in order, a result
\* below 0.5 is the last item pulled, and no point of the run comes from a
\* result below 0.5.
C9_AcceptsPrefix ==
    LET s == ses[1]
        rs == ResultsOf(gen[1].out)
    IN  s.pc \in {"running", "failAlert", "finished"} =>
          /\ Len(s.results) <= Len(rs)
          /\ \A i \in 1 .. Len(s.results) :
                /\ s.results[i] = rs[i]
                /\ s.results[i].confidence >= ConfidenceThreshold
                /\ s.results[i].frameNumber = s.startFrame + i
          /\ \A i \in 1 .. Len(rs) :
                rs[i].confidence < ConfidenceThreshold =>
                    /\ i = Len(rs)
                    /\ Len(s.results) = i - 1
                    /\ gen[1].out[Len(gen[1].out)] = rs[i]
                    /\ Finished(gen[1])
          /\ \A f \in TimelineFrames :
                points[f].run = s.run => points[f].confidence >= ConfidenceThreshold

\* a run that accepted a result, then pulled one below the threshold, and
\* committed what it had accepted
C9_Witness ==
    LET rs == ResultsOf(gen[1].out)
    IN  /\ ses[1].pc = "finished"
        /\ Len(ses[1].results) >= 1
        /\ Len(rs) = Len(ses[1].results) + 1
        /\ rs[Len(rs)].confidence < ConfidenceThreshold
        /\ \E f \in TimelineFrames : points[f].run = ses[1].run

\* C10: when the cancel control is used during Running after R results
\* were accepted, those results are not discarded: each one that has a
\* timeline frame is committed as a point, the session goes on to its
\* cleanup and reports the cancellation, not a failure.
C10_CancelKeepsResults ==
    LET s == ses[1]
    IN  s.cancelledRunning =>
          /\ s.pc \in {"running", "finished"}
          /\ SubSeq(s.results, 1, Len(s.acceptedAtCancel)) = s.acceptedAtCancel
          /\ ~s.failShown
          /\ s.pc = "finished" =>
                /\ s.finalMsg = "cancelled"
                /\ s.video = "removed"
                /\ ~s.cancelListener
                /\ ~ui.submitDisabled /\ ~ui.modalShown /\ ~ui.roiRect
                /\ Len(s.acceptedAtCancel) > 0 => s.changes = 1
                /\ undo.phase = "committed" =>
                      \A i \in 1 .. Len(s.results) :
                          LET r == s.results[i]
                          IN  r.frameNumber \in TimelineFrames =>
                                  points[r.frameNumber] = NewPoint(s.run, r)

\* cancelled while running with a result accepted, and the run has
\* finished with that result committed
C10_Witness ==
    /\ ses[1].cancelledRunning
    /\ ses[1].pc = "finished"
    /\ Len(ses[1].acceptedAtCancel) >= 1
    /\ undo.phase = "committed"
    /\ ses[1].acceptedAtCancel[1].frameNumber \in TimelineFrames

\* C11: in a template-matching run a result with confidence 0 for a frame
\* before endFrame is the last result of the run: no result for a later
\* frame follows it.
C11_ZeroIsLast ==
    LET g == gen[1]
        rs == ResultsOf(g.out)
    IN  IsTemplate(g) =>
          \A i \in 1 .. Len(rs) :
              (rs[i].confidence = ConfLost /\ rs[i].frameNumber < g.cfg.endFrame) =>
                  i = Len(rs)

\* C12: every configuration the session controller passes to trackObject
\* has 0 <= startFrame < endFrame <= frameCount, whatever the form held
\* and however often it was submitted.
Rejections == {"algorithm", "numbers", "order", "range"}

C12_ConfigInRange ==
    \A h \in Slots :
        gen[h].pc # "none" =>
            /\ 0 <= gen[h].cfg.startFrame
            /\ gen[h].cfg.startFrame < gen[h].cfg.endFrame
            /\ gen[h].cfg.endFrame <= FrameCount

\* a tracker was started with endFrame = frameCount after a submit of the
\* same session had been rejected
C12_Witness ==
    /\ gen[1].pc # "none"
    /\ gen[1].cfg.endFrame = FrameCount
    /\ ui.alert \in Rejections

\* C13: a submit that fails validation shows its message and leaves the
\* session in Configuring: no detached video is created, no tracker is
\* started, track.points is unchanged and the stored region is kept, so
\* the form is still open for a valid submit.
SubmitVerdict(data) ==
    Validate(data.algorithm, ParseInt(data.startFrame), ParseInt(data.endFrame),
             ParseInt(data.searchMargin))

C13_RejectedSubmitStaysConfiguring ==
    [][\A data \in FormData :
          (NoHandlerActive /\ SubmitVerdict(data) # "ok" /\ Submit(1, data)) =>
              /\ ui'.alert = SubmitVerdict(data)
              /\ ui'.modalShown /\ ~ui'.submitDisabled
              /\ ui'.currentROI = ui.currentROI /\ ~ui'.currentROI.null
              /\ ui'.roiRect = ui.roiRect
              /\ points' = points
              /\ gen' = gen
              /\ ses' = ses
              /\ runs' = runs]_vars

\* after a rejected submit the same session was submitted again with a
\* valid form and has created its detached video
C13_Witness ==
    /\ ui.alert \in Rejections
    /\ ~ui.currentROI.null
    /\ ses[1].pc = "preload"
    /\ ses[1].video = "loading"

\* C14: a step of the session removes a point that was on the track before
\* the run, in a frame of startFrame+1..endFrame, only if the user has
\* confirmed the overwrite in that session; when the user declines, the
\* form and the stored region stay as they were, no point is removed or
\* added and no tracker is started.
C14_OverwriteOnlyConfirmed ==
    [][/\ (ConfirmAnswer(1, FALSE)) =>
            /\ points' = points
            /\ gen' = gen /\ gen[1].pc = "none"
            /\ ses'[1].pc = "idle" /\ ses'[1].video = "none"
            /\ ui' = ui
       /\ \A f \in TimelineFrames :
            (ses'[1].pc = "finished" /\ ses[1].pc # "finished"
               /\ points[f] # NoPoint /\ points'[f] # points[f]) =>
                /\ ses'[1].confirmed
                /\ f \in (ses'[1].startFrame + 1) .. ses'[1].endFrame]_vars

\* an older point was overwritten by the commit of a confirmed session
C14_Witness ==
    /\ ses[1].pc = "finished"
    /\ ses[1].confirmed
    /\ undo.phase = "committed"
    /\ \E f \in TimelineFrames :
          /\ undo.stack[undo.index].before[f] = OldPoint(f)
          /\ points[f].run = ses[1].run

\* C15: when the detached video raises an error or does not finish
\* preloading within 10 seconds, the session is aborted with a message to
\* the user and its cleanup has run: the detached video is torn down, the
\* overlay and the stored region are removed, the modal is reset and
\* closed.
PreloadFailed(s) == s.pc = "crashed"

C15_PreloadFailureCleansUp ==
    \A h \in Slots :
        PreloadFailed(ses[h]) =>
            /\ ui.alert # "none"
            /\ ses[h].video = "removed"
            /\ ~ui.roiRect /\ ui.overlays = 0
            /\ ui.currentROI.null
            /\ ~ui.modalShown /\ ~ui.submitDisabled

\* C16: when the tracker raises an error during Running and the user has
\* not cancelled, the session shows the blocking message "Tracking
\* failed: <cause>", and once it is dismissed the cleanup has run: the
\* detached video is torn down, the overlay is removed, the submit button
\* is enabled again and the controller is idle.
TrackerFailed(h) == gen[h].pc = "threw" /\ ~ses[h].aborted

C16_FailureShownThenCleanup ==
    LET s == ses[1]
    IN  /\ TrackerFailed(1) => s.pc \in {"failAlert", "finished"} /\ s.failShown
        /\ s.pc = "failAlert" => ui.alert = "failed"
        /\ (s.failShown /\ s.pc = "finished") =>
              /\ s.video = "removed"
              /\ ~s.cancelListener
              /\ ~ui.roiRect /\ ui.currentROI.null
              /\ ~ui.submitDisabled
              /\ ~ui.modalShown /\ ui.mode = "default"

\* a seek of the loop timed out after a result was accepted, the message
\* was shown and dismissed, and the session has ended
C16_Witness ==
    /\ TrackerFailed(1)
    /\ gen[1].error = "seek"
    /\ Len(ses[1].results) >= 1
    /\ ses[1].failShown
    /\ ses[1].pc = "finished"

\* C17: a session that has left Running and ended has restored the
\* playhead of the timeline to where it was, torn down the detached video
\* and the overlay, reset the modal, and reported a summary: the number
\* of frames tracked when the run was not cancelled, the cancellation
\* notice with the partial count when it was.
C17_EndsRestoredAndReported ==
    LET s == ses[1]
    IN  s.pc = "finished" =>
          /\ ui.currentFrame = s.originalFrame
          /\ s.video = "removed"
          /\ ~ui.roiRect /\ ui.currentROI.null
          /\ ~ui.submitDisabled /\ ui.modalText = "none" /\ ~ui.modalShown
          /\ s.finalMsg = IF s.aborted THEN "cancelled" ELSE "success"

\* C18: a click on the auto-track button when there is no track, no
\* project, or the tracking engine fails to load shows a blocking message
\* and has no other effect: selection mode is not entered, no overlay
\* shape or stage listener is added, no region is stored.
PreconditionFails(u, cvLoads) == ~u.hasTrack \/ ~u.created \/ ~cvLoads

C19_RejectedDragEndsSelection ==
    ui.rejected =>
        /\ ~ui.roiRect
        /\ ui.currentROI.null
        /\ ~ui.modalShown
        /\ ui.mode = "default"

\* C20: no step that starts or continues the Running phase of a session
\* changes the playback position of the primary video, and the tracker
\* seeks the detached video created for the session, never the primary one.
Running(s) == s.pc \in {"running", "failAlert"}

C20_PrimaryVideoUntouched ==
    [][\A h \in Slots :
          (ses[h].pc \in {"preload", "running", "failAlert"} /\ Running(ses'[h])) =>
              /\ gen'[h].cfg.video = "detached"
              /\ ses'[h].video = "ready"
              /\ ui'.videoTime = ui.videoTime
              /\ ui'.currentFrame = ui.currentFrame]_vars

\* the detached video was sought to frame 2 while the playhead of the
\* timeline stays on frame 1
C20_Witness ==
    /\ ses[1].pc = "running"
    /\ gen[1].videoTime = GetFrameStart(2)
    /\ ui.currentFrame = 1
    /\ ui.videoTime = GetFrameStart(1)

\* C21: once trackObject has run past the first seek, the body that runs
\* is templateMatchTrack when the algorithm is 'template' and
\* opticalFlowTrack when it is 'optical-flow'; the native buffers the run
\* holds are those of that tracker, and the items, the completion and the
\* error are the ones that body produced.
TemplateBuffers == {"startGray", "template", "gray", "searchRegion", "result"}
FlowBuffers == {"gray", "dummy", "pts", "status", "err"}

ScriptsInserted == Cardinality({k \in Loads : loader.script[k] # "none"})

C22_LoadIsIdempotent ==
    LET c == loader.calls
    IN  /\ \A i, j \in 1 .. Len(c) :
              (c[i].failures = c[j].failures) <=> (c[i].promise = c[j].promise)
        /\ ScriptsInserted <= loader.failures + 1
        /\ Cardinality({k \in Loads : loader.script[k] \in {"loading", "ready"}}) <= 1
        /\ \A k \in Loads :
              /\ loader.promise[k] = "resolved" <=>
                    \/ loader.script[k] = "ready"
                    \/ loader.script[k] = "none" /\ loader.promise[k] # "none"
                                                /\ loader.cvDefined
              /\ loader.promise[k] = "rejected" <=> loader.script[k] = "failed"
        /\ \A i \in 1 .. Len(c) :
              /\ c[i].caller = "continued" => loader.cvDefined
              /\ c[i].caller = "caught" => loader.script[c[i].promise] = "failed"
        /\ loader.cvReady = 0 <=>
              \/ Len(c) = 0
              \/ loader.promise[c[Len(c)].promise] = "rejected"

\* two calls shared the promise of a load that then failed; the call after
\* the failure started a second load, whose runtime became ready
C22_Witness ==
    /\ Len(loader.calls) = 3
    /\ loader.calls[1].promise = 1 /\ loader.calls[2].promise = 1
    /\ loader.calls[3].promise = 2
    /\ loader.promise[1] = "rejected" /\ loader.promise[2] = "resolved"
    /\ ScriptsInserted = 2
    /\ loader.calls[2].caller = "caught"
    /\ loader.calls[3].caller = "continued"

\* C23: the stream of a tracker starts with a progress record and
\* alternates progress and result; a progress record carries
\* frame = frameNum - startFrame in 1..total and
\* total = endFrame - startFrame, no frame has two progress records, and
\* every result directly follows the progress record of its own frame.
C23_ProgressBeforeEachResult ==
    LET g == gen[1]
        o == g.out
        total == g.cfg.endFrame - g.cfg.startFrame
    IN  /\ \A i \in 1 .. Len(o) :
              /\ o[i].type = (IF i % 2 = 1 THEN "progress" ELSE "result")
              /\ o[i].type = "progress" =>
                    /\ o[i].total = total
                    /\ 1 <= o[i].frame /\ o[i].frame <= total
              /\ o[i].type = "result" =>
                    /\ i > 1
                    /\ o[i - 1].type = "progress"
                    /\ g.cfg.startFrame + o[i - 1].frame = o[i].frameNumber
        /\ \A i, j \in 1 .. Len(o) :
              (i < j /\ o[i].type = "progress" /\ o[j].type = "progress") =>
                  o[i].frame < o[j].frame

\* two frames were processed: progress 1, result, progress 2, result
C23_Witness ==
    /\ Len(gen[1].out) = 4
    /\ gen[1].out[3] = Progress(2, 2)
    /\ gen[1].out[4].type = "result"
    /\ gen[1].out[4].frameNumber = gen[1].cfg.startFrame + 2

\* C24: when the signal is aborted after the loop-top check of frame K
\* (at K's progress record or during K's seek), the tracker yields nothing
\* but the result of frame K after that; once the seek of K has succeeded
\* that result has been yielded, and a run that ended without it ended by
\* the seek error or because the consumer stopped at the progress record.
AbortedMidFrame(g) == g.aborted /\ g.abortAt.pc \in {"atProgress", "seekFrame"}

SuspendedInLoop(g) == g.pc \in {"atProgress", "seekFrame", "atResult", "atFinal", "sleep"}

C25_OnlyCarriedBuffersLive ==
    LET g == gen[1]
    IN  SuspendedInLoop(g) =>
          IF IsTemplate(g)
          THEN g.live = {Buf("template", g.cfg.startFrame)}
          ELSE g.live = {g.prevGray, g.prevPts} /\ Cardinality(g.live) = 2

\* C26: no vision operation of either tracker reads a native buffer that
\* was released before, on any path.
C26_NoUseAfterRelease ==
    \A h \in Slots : ~gen[h].useAfterFree

\* an optical-flow run tracked frame 1 from the buffers of frame 0, lost
\* the point in frame 2 reading the buffers of frame 1, and has ended
C26_Witness ==
    /\ ~IsTemplate(gen[1])
    /\ Finished(gen[1])
    /\ Len(ResultsOf(gen[1].out)) = 2
    /\ gen[1].lostAt = gen[1].cfg.startFrame + 2
    /\ ~gen[1].useAfterFree

\* C27: in a tracker run no delete call is made on a native buffer that
\* was already deleted, and a run that ended by completion, by
\* cancellation, by the consumer or by a seek error has released every
\* buffer it allocated.
C27_EachBufferDeletedOnce ==
    LET g == gen[1]
    IN  /\ g.doubleDeletes = 0
        /\ (Finished(g) /\ g.error \in {"none", "seek"}) => g.live = {}

\* C28: a tracker run never starts more than endFrame - startFrame frame
\* iterations, each for a later frame than the one before and none beyond
\* endFrame + 1, and when seeks settle, timers fire and the consumer keeps
\* pulling, the run finishes.
FrameIterations(g) == Len(ProgressOf(g.out))

C28_RunTerminates ==
    /\ [](/\ FrameIterations(gen[1]) <= gen[1].cfg.endFrame - gen[1].cfg.startFrame
          /\ StrictlyIncreasing(ProgressFrames(gen[1]))
          /\ gen[1].frameNum <= gen[1].cfg.endFrame + 1)
    /\ <>Finished(gen[1])

\* a run over two frames ended by completion after both iterations
C28_Witness ==
    /\ gen[1].pc = "done"
    /\ ~gen[1].aborted
    /\ gen[1].lostAt = 0
    /\ gen[1].frameNum = gen[1].cfg.endFrame + 1
    /\ FrameIterations(gen[1]) = 2
    /\ Len(ResultsOf(gen[1].out)) = 2

\* C29: in a template run with searchMargin >= 0 the clamped ROI
\* rectangle lies inside the frame; once the template is cut, the
\* template-sized box around the match centre lies inside the frame, the
\* search window of the next frame lies inside the frame and is at least
\* as large as the template, and the run never takes the branch for a
\* template that cannot fit.
InsideFrame(x, y, w, h, cfg) ==
    /\ 0 <= x /\ x + w <= cfg.videoWidth
    /\ 0 <= y /\ y + h <= cfg.videoHeight

C29_TemplateStaysInFrame ==
    LET g == gen[1]
        r == RoiRect(g.cfg.roi, g.cfg.videoWidth, g.cfg.videoHeight)
        s == SearchWindow(g)
    IN  (g.cfg.algorithm = "template" /\ g.cfg.searchMargin >= 0
            /\ g.cfg.videoWidth >= 1 /\ g.cfg.videoHeight >= 1) =>
          /\ r.width >= 1 /\ r.height >= 1
          /\ InsideFrame(r.x, r.y, r.width, r.height, g.cfg)
          /\ g.templateW > 0 =>
                /\ (g.matchCenterX - 2 * g.templateW) % 4 = 0
                /\ (g.matchCenterY - 2 * g.templateH) % 4 = 0
                /\ InsideFrame((g.matchCenterX - 2 * g.templateW) \div 4,
                               (g.matchCenterY - 2 * g.templateH) \div 4,
                               g.templateW, g.templateH, g.cfg)
                /\ InsideFrame(s.x, s.y, s.width, s.height, g.cfg)
                /\ ~CannotFit(g)
          /\ g.pc # "atFinal"

\* with margin 1 a template cut at the right edge of the frame was matched
\* in two frames and its box still touches that edge
C29_Witness ==
    /\ gen[1].cfg.algorithm = "template"
    /\ gen[1].cfg.searchMargin = 1
    /\ gen[1].cfg.roi.x = 4 * (VideoW - 1)
    /\ Len(ResultsOf(gen[1].out)) = 2
    /\ gen[1].matchCenterX + 2 * gen[1].templateW = 4 * VideoW

\* C30: the configuration a session gives to trackObject holds the region
\* the user drew: it is never null and never another region, whatever
\* happened between the submit and the start of the run.
C30_RunHasTheDrawnROI ==
    \A h \in Slots :
        gen[h].pc # "none" =>
            /\ ~gen[h].cfg.roi.null
            /\ gen[h].cfg.roi \in SessionROIs

\* C31: at any time at most one call of the submit handler is between an
\* accepted submit and its cleanup, at most one detached video exists, and
\* at most one tracker has been started and not finished.
C31_OneSessionAtATime ==
    /\ Cardinality({h \in Slots : Active(ses[h])}) <= 1
    /\ Cardinality({h \in Slots : ses[h].video \in {"loading", "ready"}}) <= 1
    /\ Cardinality({h \in Slots : gen[h].pc # "none" /\ ~Finished(gen[h])}) <= 1

\* C32: when the tracker raised an error that was reported, the results
\* the session holds are all the results the tracker yielded with a
\* confidence of at least the threshold; nothing is committed while the
\* failure message is up, and once it is dismissed those results are
\* committed as points under one compound undo action.
AcceptedOf(g) == SelectSeq(ResultsOf(g.out), Accepts)

C32_FailureKeepsResults ==
    LET s == ses[1]
    IN  s.failShown =>
          /\ s.results = AcceptedOf(gen[1])
          /\ s.pc = "failAlert" => s.changes = 0
          /\ s.pc = "finished" =>
                /\ s.changes = IF Len(AcceptedOf(gen[1])) >= 1 THEN 1 ELSE 0
                /\ (s.changes = 1 /\ undo.phase = "committed") =>
                      /\ Len(undo.stack) = undo.index
                      /\ Len(undo.stack[undo.index].added) = Len(Committable(s.results))
                      /\ \A i \in 1 .. Len(s.results) :
                            LET r == s.results[i]
                            IN  r.frameNumber \in TimelineFrames =>
                                    points[r.frameNumber] = NewPoint(s.run, r)

\* the tracker failed after one accepted result, the message was
\* dismissed and the point of that result is on the track
C32_Witness ==
    /\ ses[1].failShown
    /\ ses[1].pc = "finished"
    /\ gen[1].pc = "threw"
    /\ Len(AcceptedOf(gen[1])) = 1
    /\ undo.phase = "committed"
    /\ Len(undo.stack[undo.index].added) = 1
    /\ points[ses[1].results[1].frameNumber] = NewPoint(ses[1].run, ses[1].results[1])

\* C33: the chunk buffer of a WebcamRecorder holds only chunks of the
\* recorder made by the most recent startRecording, it is empty from
\* cleanup() to the next startRecording, and the blob of stopRecording is
\* made of exactly the chunks that recorder emitted, in order.
C33_ChunksOfCurrentRecorderOnly ==
    /\ webcam.cleaned => webcam.recordedChunks = <<>>
    /\ \A i \in 1 .. Len(webcam.recordedChunks) :
          webcam.recordedChunks[i].rec = webcam.created
    /\ webcam.blob.made =>
          /\ webcam.blob.of = webcam.blob.latest
          /\ webcam.blob.chunks = [i \in 1 .. webcam.blob.n |-> Chunk(webcam.blob.of, i)]

\* C34: a call of seekToFrame that started a seek calls resolve or reject
\* exactly once: while it is pending its listener and its timer are both
\* registered; it is resolved only by the seeked event and rejected only
\* by the timer; once it is settled neither its listener nor its timer
\* remains and nothing settles it again.
StartedSeek(c) == seek.promise[c] # "none" /\ seek.by[c] # "atOnce"

C34_SeekSettlesOnce ==
    \A c \in SeekCalls :
        StartedSeek(c) =>
            /\ seek.settles[c] <= 1
            /\ seek.promise[c] = "pending" <=> seek.settles[c] = 0
            /\ seek.promise[c] = "pending" => c \in seek.listeners /\ c \in seek.timers
            /\ seek.promise[c] # "pending" => c \notin seek.listeners /\ c \notin seek.timers
            /\ seek.promise[c] = "resolved" <=> seek.by[c] = "seeked"
            /\ seek.promise[c] = "rejected" <=> seek.by[c] = "timer"

\* the first call was resolved by the seeked event, the second was
\* rejected by its timer, and the seek it had started completed after that
C34_Witness ==
    /\ seek.by[1] = "seeked" /\ seek.promise[1] = "resolved"
    /\ seek.by[2] = "timer" /\ seek.promise[2] = "rejected"
    /\ seek.calls = 2
    /\ ~seek.seeking
    /\ seek.settles[1] = 1 /\ seek.settles[2] = 1

====
